---- MODULE Spec2Model ----
(***************************************************************************)
(* Model of incremental_cmassman.py: the exhaustive backtracking k-SAT     *)
(* engine (class IncrementalkSAT) and the batch runner (time_solver and    *)
(* run_ksat_cases).                                                        *)
(*                                                                         *)
(* Python values are modelled as follows.  The booleans True/False and     *)
(* None are the strings "True", "False" and "None".  A list is a sequence; *)
(* Python index k is position k+1.  A raised ValueError is the engine      *)
(* position "error"; an exception that leaves run_ksat_cases is the runner *)
(* position "crashed"; sys.exit is the runner position "exited".           *)
(*                                                                         *)
(* Spec    : one engine, constructed on an arbitrary clause list and       *)
(*           searched, one statement of backtrack per step.                *)
(* SpecRun : run_ksat_cases over an arbitrary list of parsed problems; the *)
(*           engine steps are the same actions.                            *)
(***************************************************************************)
EXTENDS Integers, Sequences, FiniteSets

VARIABLES
    clauses,      \* self.clauses of the current IncrementalkSAT object
    num_vars,     \* self.num_vars
    assignment,   \* the local list `assignment` of incremental_search
    stack,        \* the call stack of backtrack: frames [index, pc]
    ret,          \* value returned by the backtrack call that returned last
    result,       \* value returned by incremental_search
    epc,          \* position of the engine: new/constructed/searching/done/error/idle
    checked,      \* history: the [depth, buffer] of every is_satisfied call
    problems,     \* the list returned by parse_ksat_cnf
    idx,          \* 0-based position of the for loop of run_ksat_cases
    sizes,        \* run_ksat_cases: sizes
    times,        \* run_ksat_cases: times
    answers,      \* run_ksat_cases: answers
    rows,         \* data rows written with csv_writer.writerow, in order
    start_time,   \* time_solver: start_time
    now,          \* the wall clock read by time.time()
    rpc           \* position of the runner: idle/start/loop/timing/returned/exited/crashed

engineVars == <<clauses, num_vars, assignment, stack, ret, result, epc, checked>>
runnerVars == <<problems, idx, sizes, times, answers, rows, start_time, now, rpc>>
vars == <<clauses, num_vars, assignment, stack, ret, result, epc, checked,
          problems, idx, sizes, times, answers, rows, start_time, now, rpc>>

----------------------------------------------------------------------------
(* Bounds of the engine inputs. *)
MaxVar == 2
MaxClauseLen == 2
MaxClauses == 2
(* Bound of the runner input. *)
MaxProblems == 2

Abs(x) == IF x < 0 THEN -x ELSE x

Max(S) == CHOOSE m \in S : \A x \in S : x <= m

(* A fixed enumeration of a finite set as a list. *)
SeqOf(S) ==
    CHOOSE s \in [1..Cardinality(S) -> S] : \A x \in S : \E k \in 1..Cardinality(S) : s[k] = x

RECURSIVE SubsetsUpTo(_, _)
SubsetsUpTo(S, k) ==
    IF k = 0 THEN {{}}
    ELSE LET smaller == SubsetsUpTo(S, k - 1)
         IN  smaller \cup {T \cup {x} : T \in smaller, x \in S}

(* Literals are nonzero integers (parse_ksat_cnf drops the terminating 0). *)
Literals == {l \in (-MaxVar)..MaxVar : l # 0}

(* Clause lists the engine is constructed on.  The engine reads a clause   *)
(* list only through for/any/max, so one list per set of distinct clauses  *)
(* and one clause per set of distinct literals is enumerated.  The zero-   *)
(* clause list and the empty clause are included.                          *)
ClausePool == {SeqOf(L) : L \in SubsetsUpTo(Literals, MaxClauseLen)}
ClauseSets == {SeqOf(C) : C \in SubsetsUpTo(ClausePool, MaxClauses)}

----------------------------------------------------------------------------
(* IncrementalkSAT *)

(* The generator of get_num_vars: abs(lit) for clause in clauses for lit in clause. *)
Magnitudes(cs) == UNION {{Abs(cs[i][j]) : j \in DOMAIN cs[i]} : i \in DOMAIN cs}

(* get_num_vars: max() of the generator; max() of an empty generator raises *)
(* ValueError.                                                              *)
get_num_vars(cs) ==
    IF Magnitudes(cs) = {}
    THEN [raised |-> TRUE, value |-> 0]
    ELSE [raised |-> FALSE, value |-> Max(Magnitudes(cs))]

(* The test of one literal in is_satisfied.  `not x` is true of False and *)
(* of None.                                                               *)
lit_true(lit, a) ==
    \/ lit > 0 /\ a[lit] = "True"
    \/ lit < 0 /\ a[Abs(lit)] # "True"

is_satisfied_any(cs, a) ==
    \E i \in DOMAIN cs : \E j \in DOMAIN cs[i] : lit_true(cs[i][j], a)

is_satisfied(cs, a) ==
    \A i \in DOMAIN cs : \E j \in DOMAIN cs[i] : lit_true(cs[i][j], a)

Bool(b) == IF b THEN "True" ELSE "False"

(* __init__, applied to the clause list cs. *)
Construct(cs) ==
    LET n == get_num_vars(cs)
    IN  /\ clauses' = cs
        /\ IF n.raised
           THEN epc' = "error" /\ num_vars' = 0
           ELSE epc' = "constructed" /\ num_vars' = n.value
        /\ assignment' = <<>>
        /\ stack' = <<>>
        /\ ret' = "none"
        /\ result' = "none"
        /\ checked' = <<>>

IncrementalkSAT_init ==
    /\ epc = "new"
    /\ Construct(clauses)
    /\ UNCHANGED runnerVars

Top == stack[Len(stack)]
Pop == SubSeq(stack, 1, Len(stack) - 1)
SetTopPc(p) == [stack EXCEPT ![Len(stack)].pc = p]
AtTop(p) == epc = "searching" /\ stack # <<>> /\ Top.pc = p

(* incremental_search: the buffer is created and backtrack(0) is called. *)
incremental_search_begin ==
    /\ epc = "constructed"
    /\ epc' = "searching"
    /\ assignment' = [k \in 1..num_vars |-> "None"]
    /\ stack' = <<[index |-> 0, pc |-> "enter"]>>
    /\ ret' = "none"
    /\ UNCHANGED <<clauses, num_vars, result, checked>>
    /\ UNCHANGED runnerVars

(* backtrack: index == num_vars, return is_satisfied(assignment). *)
backtrack_base ==
    /\ AtTop("enter")
    /\ Top.index = num_vars
    /\ ret' = Bool(is_satisfied(clauses, assignment))
    /\ checked' = Append(checked, [depth |-> Top.index, buffer |-> assignment])
    /\ stack' = Pop
    /\ UNCHANGED <<clauses, num_vars, assignment, result, epc>>
    /\ UNCHANGED runnerVars

backtrack_assign_true_swapped ==
    /\ AtTop("enter")
    /\ Top.index # num_vars
    /\ assignment' = [assignment EXCEPT ![Top.index + 1] = "False"]
    /\ stack' = SetTopPc("callTrue")
    /\ UNCHANGED <<clauses, num_vars, ret, result, epc, checked>>
    /\ UNCHANGED runnerVars

(* backtrack: assignment[index] = True. *)
backtrack_assign_true ==
    /\ AtTop("enter")
    /\ Top.index # num_vars
    /\ assignment' = [assignment EXCEPT ![Top.index + 1] = "True"]
    /\ stack' = SetTopPc("callTrue")
    /\ UNCHANGED <<clauses, num_vars, ret, result, epc, checked>>
    /\ UNCHANGED runnerVars

(* backtrack: the call backtrack(index + 1) of the True branch. *)
backtrack_call_true ==
    /\ AtTop("callTrue")
    /\ stack' = Append(SetTopPc("waitTrue"), [index |-> Top.index + 1, pc |-> "enter"])
    /\ UNCHANGED <<clauses, num_vars, assignment, ret, result, epc, checked>>
    /\ UNCHANGED runnerVars

backtrack_after_true_pruned ==
    /\ AtTop("waitTrue")
    /\ ret # "none"
    /\ IF ret = "True"
       THEN stack' = Pop /\ ret' = "True" /\ assignment' = assignment
       ELSE stack' = Pop /\ ret' = "False"
            /\ assignment' = [assignment EXCEPT ![Top.index + 1] = "None"]
    /\ UNCHANGED <<clauses, num_vars, result, epc, checked>>
    /\ UNCHANGED runnerVars

(* backtrack: the True branch returned; `if ...: return True`, else go on. *)
backtrack_after_true ==
    /\ AtTop("waitTrue")
    /\ ret # "none"
    /\ IF ret = "True"
       THEN stack' = Pop /\ ret' = "True"
       ELSE stack' = SetTopPc("assignFalse") /\ ret' = "none"
    /\ UNCHANGED <<clauses, num_vars, assignment, result, epc, checked>>
    /\ UNCHANGED runnerVars

(* backtrack: assignment[index] = False. *)
backtrack_assign_false ==
    /\ AtTop("assignFalse")
    /\ assignment' = [assignment EXCEPT ![Top.index + 1] = "False"]
    /\ stack' = SetTopPc("callFalse")
    /\ UNCHANGED <<clauses, num_vars, ret, result, epc, checked>>
    /\ UNCHANGED runnerVars

(* backtrack: the call backtrack(index + 1) of the False branch. *)
backtrack_call_false ==
    /\ AtTop("callFalse")
    /\ stack' = Append(SetTopPc("waitFalse"), [index |-> Top.index + 1, pc |-> "enter"])
    /\ UNCHANGED <<clauses, num_vars, assignment, ret, result, epc, checked>>
    /\ UNCHANGED runnerVars

(* backtrack: the False branch returned; `if ...: return True`, else go on. *)
backtrack_after_false ==
    /\ AtTop("waitFalse")
    /\ ret # "none"
    /\ IF ret = "True"
       THEN stack' = Pop /\ ret' = "True"
       ELSE stack' = SetTopPc("reset") /\ ret' = "none"
    /\ UNCHANGED <<clauses, num_vars, assignment, result, epc, checked>>
    /\ UNCHANGED runnerVars

backtrack_reset_skipped ==
    /\ AtTop("reset")
    /\ stack' = Pop
    /\ ret' = "False"
    /\ UNCHANGED <<clauses, num_vars, assignment, result, epc, checked>>
    /\ UNCHANGED runnerVars

(* backtrack: assignment[index] = None; return False. *)
backtrack_reset ==
    /\ AtTop("reset")
    /\ assignment' = [assignment EXCEPT ![Top.index + 1] = "None"]
    /\ stack' = Pop
    /\ ret' = "False"
    /\ UNCHANGED <<clauses, num_vars, result, epc, checked>>
    /\ UNCHANGED runnerVars

(* incremental_search: `if backtrack(0): return True else: return False`. *)
incremental_search_end ==
    /\ epc = "searching"
    /\ stack = <<>>
    /\ ret # "none"
    /\ result' = ret
    /\ epc' = "done"
    /\ UNCHANGED <<clauses, num_vars, assignment, stack, ret, checked>>
    /\ UNCHANGED runnerVars

Search ==
    \/ incremental_search_begin
    \/ backtrack_base
    \/ backtrack_assign_true
    \/ backtrack_call_true
    \/ backtrack_after_true
    \/ backtrack_assign_false
    \/ backtrack_call_false
    \/ backtrack_after_false
    \/ backtrack_reset
    \/ incremental_search_end

NoRunner ==
    /\ problems = <<>>
    /\ idx = 0
    /\ sizes = <<>>
    /\ times = <<>>
    /\ answers = <<>>
    /\ rows = <<>>
    /\ start_time = 0
    /\ now = 0

Init ==
    /\ clauses \in ClauseSets
    /\ num_vars = 0
    /\ assignment = <<>>
    /\ stack = <<>>
    /\ ret = "none"
    /\ result = "none"
    /\ epc = "new"
    /\ checked = <<>>
    /\ NoRunner
    /\ rpc = "idle"

Next == IncrementalkSAT_init \/ Search

Spec == Init /\ [][Next]_vars

----------------------------------------------------------------------------
(* time_solver and run_ksat_cases *)

(* time.time() is the variable `now`; it is read at start_time and, after *)
(* the search, at end_time, and does not run backward between the two     *)
(* reads.  The header row and the printed status lines carry none of the  *)
(* run's state and are left out; `rows` holds the data rows.              *)

(* Problems as parse_ksat_cnf returns them: a problem is appended when the *)
(* number of collected clause lines equals the declared num_clauses, so    *)
(* every problem has at least one clause and num_clauses = len(clauses); a *)
(* clause line holding only the terminator 0 gives the clause [].  The     *)
(* declared num_vars comes from the `p` line and satisfiability from the   *)
(* `c` line ("None" when the field is absent).                             *)
RunClauseSets ==
    { << <<>> >>,
      << <<1>> >>,
      << <<1>>, <<-1>> >>,
      << <<>>, <<1>> >>,
      << <<-2>> >> }
DeclaredVars == {1, 2}
Labels == {"S", "U", "None"}
ElapsedChoices == {0, 1}

ProblemPool ==
    { [num_vars |-> d, num_clauses |-> Len(cs), clauses |-> cs, satisfiability |-> l] :
        d \in DeclaredVars, cs \in RunClauseSets, l \in Labels }

RECURSIVE SeqsUpTo(_, _)
SeqsUpTo(S, k) ==
    IF k = 0 THEN {<<>>}
    ELSE LET shorter == SeqsUpTo(S, k - 1)
         IN  shorter \cup {Append(q, x) : q \in shorter, x \in S}

EngineGone ==
    /\ clauses' = <<>>
    /\ num_vars' = 0
    /\ assignment' = <<>>
    /\ stack' = <<>>
    /\ ret' = "none"
    /\ result' = "none"
    /\ epc' = "idle"
    /\ checked' = <<>>

(* run_ksat_cases up to the loop: parse, empty lists, open the file, header. *)
run_ksat_cases_begin ==
    /\ rpc = "start"
    /\ rpc' = "loop"
    /\ sizes' = <<>>
    /\ times' = <<>>
    /\ answers' = <<>>
    /\ rows' = <<>>
    /\ UNCHANGED <<problems, idx, start_time, now>>
    /\ UNCHANGED engineVars

(* The loop takes the next problem and calls time_solver, which constructs *)
(* the engine and reads start_time.  A ValueError of the constructor is    *)
(* caught nowhere and ends the run.                                        *)
time_solver_begin ==
    /\ rpc = "loop"
    /\ idx < Len(problems)
    /\ Construct(problems[idx + 1].clauses)
    /\ IF get_num_vars(problems[idx + 1].clauses).raised
       THEN rpc' = "crashed" /\ start_time' = start_time
       ELSE rpc' = "timing" /\ start_time' = now
    /\ UNCHANGED <<problems, idx, sizes, times, answers, rows, now>>

(* The solver result contradicts the expected satisfiability. *)
Mismatch(solver, expected) ==
    \/ solver = "True" /\ expected = "U"
    \/ solver = "False" /\ expected = "S"

(* What one pass of the loop body does once the search has returned, with *)
(* `size` the value appended to sizes and written as Number of Variables  *)
(* and dt the time the clock advanced during the search.                  *)
RecordResult(size, dt) ==
    LET p == problems[idx + 1]
        end_time == now + dt
        elapsed_time == end_time - start_time
    IN  /\ now' = end_time
        /\ sizes' = Append(sizes, size)
        /\ times' = Append(times, elapsed_time)
        /\ answers' = Append(answers, result)
        /\ rows' = Append(rows, [num_vars |-> size,
                                 num_clauses |-> p.num_clauses,
                                 time |-> elapsed_time,
                                 solver |-> result,
                                 expected |-> p.satisfiability])
        /\ IF Mismatch(result, p.satisfiability)
           THEN rpc' = "exited" /\ idx' = idx
           ELSE rpc' = "loop" /\ idx' = idx + 1
        /\ EngineGone
        /\ UNCHANGED <<problems, start_time>>

time_solver_end_derived ==
    /\ rpc = "timing"
    /\ epc = "done"
    /\ \E dt \in ElapsedChoices : RecordResult(num_vars, dt)

(* time_solver reads end_time and returns; the loop body appends to the    *)
(* three lists, prints, writes the row and makes the mismatch check, which *)
(* ends the process with sys.exit.                                         *)
time_solver_end ==
    /\ rpc = "timing"
    /\ epc = "done"
    /\ \E dt \in ElapsedChoices : RecordResult(problems[idx + 1].num_vars, dt)

(* The loop is exhausted: return sizes, times, answers. *)
run_ksat_cases_return ==
    /\ rpc = "loop"
    /\ idx = Len(problems)
    /\ rpc' = "returned"
    /\ UNCHANGED <<problems, idx, sizes, times, answers, rows, start_time, now>>
    /\ UNCHANGED engineVars

InitRun ==
    /\ problems \in SeqsUpTo(ProblemPool, MaxProblems)
    /\ idx = 0
    /\ sizes = <<>>
    /\ times = <<>>
    /\ answers = <<>>
    /\ rows = <<>>
    /\ start_time = 0
    /\ now = 0
    /\ rpc = "start"
    /\ clauses = <<>>
    /\ num_vars = 0
    /\ assignment = <<>>
    /\ stack = <<>>
    /\ ret = "none"
    /\ result = "none"
    /\ epc = "idle"
    /\ checked = <<>>

NextRun ==
    \/ run_ksat_cases_begin
    \/ time_solver_begin
    \/ Search
    \/ time_solver_end
    \/ run_ksat_cases_return

SpecRun == InitRun /\ [][NextRun]_vars

----------------------------------------------------------------------------
(* Reference notions the engine claims are stated with. *)

RECURSIVE Pow2(_)
Pow2(n) == IF n = 0 THEN 1 ELSE 2 * Pow2(n - 1)

(* N of a clause list: the largest literal magnitude, 0 without literals. *)
MaxMagnitude(cs) == IF Magnitudes(cs) = {} THEN 0 ELSE Max(Magnitudes(cs))

TotalAssignments(n) == [1..n -> {"True", "False"}]

(* Some literal of every clause is true under the total assignment a. *)
Satisfies(cs, a) ==
    \A i \in DOMAIN cs : \E j \in DOMAIN cs[i] :
        IF cs[i][j] > 0 THEN a[cs[i][j]] = "True" ELSE a[-cs[i][j]] = "False"

Satisfiable(cs) == \E a \in TotalAssignments(MaxMagnitude(cs)) : Satisfies(cs, a)

HasLiteral(cs) == Magnitudes(cs) # {}
HasEmptyClause(cs) == \E i \in DOMAIN cs : cs[i] = <<>>

(* The k-th total assignment over n variables in lexicographic order, *)
(* True before False, variable 1 most significant.                    *)
LexAssignment(k, n) ==
    [j \in 1..n |-> IF ((k - 1) \div Pow2(n - j)) % 2 = 0 THEN "True" ELSE "False"]

IsTotal(a) == \A j \in DOMAIN a : a[j] \in {"True", "False"}

(* Entries 1..len of the buffer are True or False, the others are None. *)
AssignedPrefix(len) ==
    \A j \in DOMAIN assignment :
        /\ j <= len => assignment[j] \in {"True", "False"}
        /\ j > len => assignment[j] = "None"

InFrame == epc = "searching" /\ stack # <<>>

----------------------------------------------------------------------------
(* Claims about the engine, checked under Spec. *)

(* C1: for a clause list with at least one literal, incremental_search   *)
(* returns True if and only if some total assignment over 1..N satisfies *)
(* every clause.                                                         *)
C1_SearchIffSatisfiable ==
    (epc = "done" /\ HasLiteral(clauses)) =>
        (result = "True" <=> Satisfiable(clauses))

C1_Witness ==
    /\ epc = "done"
    /\ result = "False"
    /\ ~HasEmptyClause(clauses)
    /\ num_vars = MaxVar

(* C2: on a clause list with zero clauses, constructing the engine raises *)
(* no error and the search returns True.                                  *)
C2_ZeroClausesReturnTrue ==
    (Len(clauses) = 0) =>
        /\ epc # "error"
        /\ epc = "done" => result = "True"

(* C3: on a clause list that contains an empty clause, also when every *)
(* clause is empty, the search returns False (and no error is raised). *)
C3_EmptyClauseReturnFalse ==
    HasEmptyClause(clauses) =>
        /\ epc # "error"
        /\ epc = "done" => result = "False"

(* C8 as stated: while a backtrack frame of depth d is active, buffer *)
(* entries below d are assigned and entries d..N-1 are Unassigned.    *)
C8_PrefixEqualsDepth == InFrame => AssignedPrefix(Top.index)

(* C8 amended: the assigned entries always form a prefix.  Until a leaf  *)
(* check succeeds its length is d on entry to the frame of depth d and   *)
(* d+1 from the frame's first assignment on (the entry at d holds the    *)
(* branch being tried); while True is propagated up the whole buffer     *)
(* stays assigned.                                                       *)
C8_PrefixAmended ==
    InFrame =>
        IF ret = "True" THEN AssignedPrefix(num_vars)
        ELSE IF Top.pc = "enter" THEN AssignedPrefix(Top.index)
        ELSE AssignedPrefix(Top.index + 1)

C8_Witness ==
    /\ InFrame
    /\ ret = "True"
    /\ Top.index + 1 < num_vars
    /\ AssignedPrefix(num_vars)

(* C9: is_satisfied is called only at depth N on a buffer without None; *)
(* when the search returns False it was called exactly once on each of  *)
(* the 2^N total assignments.                                           *)
C9_CheckOnlyAtLeaves ==
    /\ \A k \in DOMAIN checked :
          checked[k].depth = num_vars /\ IsTotal(checked[k].buffer)
    /\ (epc = "done" /\ result = "False") =>
          /\ Len(checked) = Pow2(num_vars)
          /\ {checked[k].buffer : k \in DOMAIN checked} = TotalAssignments(num_vars)

C9_Witness ==
    /\ epc = "done"
    /\ result = "False"
    /\ num_vars = MaxVar
    /\ Len(checked) = Pow2(MaxVar)

(* C10: the assignments are checked in lexicographic order, True before  *)
(* False; when the search returns True the last one checked is the first *)
(* satisfying one and the buffer holds it; when it returns False the     *)
(* buffer is entirely None.                                              *)
C10_LexOrderShortCircuit ==
    /\ \A k \in DOMAIN checked : checked[k].buffer = LexAssignment(k, num_vars)
    /\ (epc = "done" /\ result = "True") =>
          /\ checked # <<>>
          /\ Satisfies(clauses, checked[Len(checked)].buffer)
          /\ \A k \in 1..(Len(checked) - 1) : ~Satisfies(clauses, checked[k].buffer)
          /\ assignment = checked[Len(checked)].buffer
    /\ (epc = "done" /\ result = "False") =>
          \A j \in DOMAIN assignment : assignment[j] = "None"

C10_Witness ==
    /\ epc = "done"
    /\ result = "True"
    /\ Len(checked) > 1
    /\ Len(checked) < Pow2(num_vars)
    /\ assignment = checked[Len(checked)].buffer

----------------------------------------------------------------------------
(* Claims about the runner, checked under SpecRun. *)

(* The result the engine owes for a problem: True iff its clauses are *)
(* satisfiable (False for a clause list with an empty clause).        *)
OwedResult(p) == Bool(Satisfiable(p.clauses))

IsMismatch(p) ==
    \/ OwedResult(p) = "True" /\ p.satisfiability = "U"
    \/ OwedResult(p) = "False" /\ p.satisfiability = "S"

(* Position of the first problem whose result contradicts its label, or 0. *)
FirstMismatch ==
    IF \E k \in DOMAIN problems : IsMismatch(problems[k])
    THEN CHOOSE k \in DOMAIN problems :
            /\ IsMismatch(problems[k])
            /\ \A j \in 1..(k - 1) : ~IsMismatch(problems[j])
    ELSE 0

Ended == rpc \in {"returned", "exited", "crashed"}

(* C4: when problem k is the first whose result contradicts its label, the *)
(* runner processes problems 1..k in order, writes exactly k rows and then *)
(* aborts; nothing is searched or written for problem k+1 onward.          *)
C4_AbortAtFirstMismatch ==
    FirstMismatch # 0 =>
        /\ idx < FirstMismatch
        /\ Len(rows) <= FirstMismatch
        /\ \A j \in DOMAIN rows :
              /\ rows[j].expected = problems[j].satisfiability
              /\ rows[j].solver = OwedResult(problems[j])
        /\ Ended => (rpc = "exited" /\ Len(rows) = FirstMismatch)

C6_AbortIffMismatch ==
    /\ (rpc \in {"exited", "crashed"}) =>
          /\ idx < Len(problems)
          /\ problems[idx + 1].satisfiability # "None"
          /\ IsMismatch(problems[idx + 1])
    /\ \A j \in DOMAIN rows :
          Mismatch(rows[j].solver, rows[j].expected) =>
              (rpc = "exited" /\ j = Len(rows))

(* C7: on a problem list without mismatch the runner returns sizes, times *)
(* and answers of the length of the list, entry j for problem j, and all  *)
(* elapsed times are >= 0.                                                *)
C7_FullResultsWithoutMismatch ==
    FirstMismatch = 0 =>
        /\ \A j \in DOMAIN times : times[j] >= 0
        /\ \A j \in DOMAIN answers : answers[j] = OwedResult(problems[j])
        /\ Ended =>
              /\ rpc = "returned"
              /\ Len(sizes) = Len(problems)
              /\ Len(times) = Len(problems)
              /\ Len(answers) = Len(problems)

====
